---- MODULE Spec2Model ----
(***************************************************************************)
(* Model of the Spotify ETL pipelines of airflow-spotify-etl:              *)
(*   spotify_etl.py   run_spotify_etl (artist top tracks -> CSV)           *)
(*   spotify_etl2.py  run_spotify_recently_played_etl (history -> SQLite)  *)
(*   new.py           run_spotify_recently_played_analysis (history -> CSV)*)
(* JSON payloads are records with an explicit `kind` tag, so that a key    *)
(* that is absent ("missing"), a JSON null ("null") and a present value    *)
(* are told apart the way Python's dict.get / indexing tell them apart.    *)
(***************************************************************************)
EXTENDS Integers, Sequences, FiniteSets, TLC

(***************************************************************************)
(* Bounds of the model.                                                    *)
(***************************************************************************)
MaxItems == 2
MaxRuns == 2

(***************************************************************************)
(* JSON scalars.                                                           *)
(***************************************************************************)
Missing == [kind |-> "missing", s |-> "", n |-> 0]
Null == [kind |-> "null", s |-> "", n |-> 0]
JStr(x) == [kind |-> "str", s |-> x, n |-> 0]
JInt(k) == [kind |-> "int", s |-> "", n |-> k]
JBool(b) == [kind |-> "bool", s |-> "", n |-> IF b THEN 1 ELSE 0]

Unknown == JStr("Unknown")
EmptyStr == JStr("")
Zero == JInt(0)
False == JBool(FALSE)

\* dict.get(key, default): the default only when the key is absent
get(v, default) == IF v.kind = "missing" THEN default ELSE v

\* Python truthiness of a scalar
truthy(v) ==
    \/ v.kind = "str" /\ v.s # ""
    \/ v.kind = "int" /\ v.n # 0
    \/ v.kind = "bool" /\ v.n = 1

\* played_at timestamps of the upstream API and their first ten characters
T1 == "2024-01-01T10:00:00Z"
T2 == "2024-01-02T11:30:00Z"
slice10(s) ==
    CASE s = T1 -> "2024-01-01"
      [] s = T2 -> "2024-01-02"
      [] OTHER -> s

(***************************************************************************)
(* JSON objects of the API: artist, artists list, album, external_urls,    *)
(* track, and the recently-played item wrapping a track.                   *)
(***************************************************************************)
NoArtists == [kind |-> "missing", elems |-> <<>>]
NoAlbum == [kind |-> "missing", name |-> Missing, id |-> Missing, release_date |-> Missing]
NoUrls == [kind |-> "missing", spotify |-> Missing]
EmptyAlbum == [NoAlbum EXCEPT !.kind = "dict"]
EmptyUrls == [NoUrls EXCEPT !.kind = "dict"]
EmptyList == [kind |-> "list", elems |-> <<>>]

\* the dict {} : every key absent
EmptyTrack ==
    [kind |-> "dict", name |-> Missing, artists |-> NoArtists, album |-> NoAlbum,
     external_urls |-> NoUrls, preview_url |-> Missing, duration_ms |-> Missing,
     popularity |-> Missing, explicit |-> Missing, id |-> Missing]
NoTrack == [EmptyTrack EXCEPT !.kind = "missing"]
NullTrack == [EmptyTrack EXCEPT !.kind = "null"]

\* `x if artists else d`: a list is truthy when it is a non-empty list
listTruthy(a) == a.kind = "list" /\ Len(a.elems) > 0

(***************************************************************************)
(* spotify_etl2.py process_tracks_data: eight column accumulators, one     *)
(* append per column per item, inside a per-item try/except.               *)
(***************************************************************************)
EmptyAcc ==
    [song_names |-> <<>>, artist_names |-> <<>>, played_at_list |-> <<>>,
     timestamps |-> <<>>, track_ids |-> <<>>, album_names |-> <<>>,
     durations |-> <<>>, popularities |-> <<>>]

\* track = item.get("track", {})
etl2_track(item) == IF item.track.kind = "missing" THEN EmptyTrack ELSE item.track

\* artists[0].get("name", "Unknown") if artists else "Unknown"
etl2_artist_name(track) ==
    IF listTruthy(track.artists)
    THEN get(track.artists.elems[1].name, Unknown)
    ELSE Unknown

\* timestamp = played_at[:10] if played_at else ""
etl2_timestamp(played_at) ==
    IF truthy(played_at) THEN JStr(slice10(played_at.s)) ELSE EmptyStr

\* Number of appends the try block performs for the item before it raises
\* (8 = the block completes): None.get raises AttributeError, slicing a
\* number raises TypeError.
etl2_appends(item) ==
    LET track == etl2_track(item) IN
    IF track.kind = "null" THEN 0
    ELSE IF listTruthy(track.artists) /\ track.artists.elems[1].kind = "null" THEN 1
    ELSE IF truthy(item.played_at) /\ item.played_at.kind # "str" THEN 3
    ELSE IF track.album.kind = "null" THEN 5
    ELSE 8

\* one iteration of the loop of process_tracks_data
etl2_process_item(acc, item) ==
    LET track == etl2_track(item)
        k == etl2_appends(item)
        played_at == get(item.played_at, EmptyStr)
        album == IF track.album.kind = "missing" THEN EmptyAlbum ELSE track.album
        put(col, i, v) == IF k >= i THEN Append(col, v) ELSE col
    IN  [song_names |-> put(acc.song_names, 1, get(track.name, Unknown)),
         artist_names |-> put(acc.artist_names, 2, etl2_artist_name(track)),
         played_at_list |-> put(acc.played_at_list, 3, played_at),
         timestamps |-> put(acc.timestamps, 4, etl2_timestamp(played_at)),
         track_ids |-> put(acc.track_ids, 5, get(track.id, EmptyStr)),
         album_names |-> put(acc.album_names, 6, get(album.name, Unknown)),
         durations |-> put(acc.durations, 7, get(track.duration_ms, Zero)),
         popularities |-> put(acc.popularities, 8, get(track.popularity, Zero))]

RECURSIVE etl2_accumulate(_, _)
etl2_accumulate(acc, items) ==
    IF items = <<>> THEN acc
    ELSE etl2_accumulate(etl2_process_item(acc, Head(items)), Tail(items))

\* pd.DataFrame(song_dict) raises ValueError unless all columns have one length
columns_aligned(acc) ==
    LET n == Len(acc.song_names) IN
    /\ Len(acc.artist_names) = n /\ Len(acc.played_at_list) = n
    /\ Len(acc.timestamps) = n /\ Len(acc.track_ids) = n
    /\ Len(acc.album_names) = n /\ Len(acc.durations) = n
    /\ Len(acc.popularities) = n

\* the rows of the DataFrame built from the accumulators
dataframe(acc) ==
    [i \in 1..Len(acc.song_names) |->
        [song_name |-> acc.song_names[i], artist_name |-> acc.artist_names[i],
         played_at |-> acc.played_at_list[i], timestamp |-> acc.timestamps[i],
         track_id |-> acc.track_ids[i], album_name |-> acc.album_names[i],
         duration_ms |-> acc.durations[i], popularity |-> acc.popularities[i]]]

\* process_tracks_data(data): for item in data.get("items", [])
process_tracks_data(items) ==
    LET acc == etl2_accumulate(EmptyAcc, items) IN
    IF columns_aligned(acc)
    THEN [raised |-> FALSE, df |-> dataframe(acc)]
    ELSE [raised |-> TRUE, df |-> <<>>]

\* mutant: the uniqueness check skips rows whose played_at is empty
is_unique_present(df) ==
    \A i, j \in 1..Len(df) :
        (i # j /\ truthy(df[i].played_at)) => df[i].played_at # df[j].played_at

\* df['played_at'].is_unique
is_unique(df) ==
    \A i, j \in 1..Len(df) : i # j => df[i].played_at # df[j].played_at

\* check_if_valid_data(df): "empty" (returns False), "raise" (primary key
\* check violated) or "valid" (returns True; nulls and old dates only warn)
check_if_valid_data(df) ==
    IF df = <<>> THEN "empty"
    ELSE IF ~is_unique(df) THEN "raise"
    ELSE "valid"

(***************************************************************************)
(* new.py get_recently_played_tracks: the per-item block (lines 110-129).  *)
(* The result is the sequence appended to track_data: one record, or none  *)
(* when the block raises and the item is skipped.                          *)
(***************************************************************************)
\* track['artists'][0][key] if track.get('artists') else default
first_artist(track, key, default) ==
    IF listTruthy(track.artists)
    THEN IF key = "name" THEN track.artists.elems[1].name ELSE track.artists.elems[1].id
    ELSE default

\* does track['artists'][0][key] raise (TypeError on None, KeyError)?
first_artist_raises(track, key) ==
    /\ listTruthy(track.artists)
    /\ \/ track.artists.elems[1].kind = "null"
       \/ first_artist(track, key, Missing).kind = "missing"

\* track.get('album', {}).get(k, d): raises when album is null
album_of(track) == IF track.album.kind = "missing" THEN EmptyAlbum ELSE track.album
urls_of(track) ==
    IF track.external_urls.kind = "missing" THEN EmptyUrls ELSE track.external_urls

new_item_raises(item) ==
    \/ item.track.kind = "missing"
    \/ item.track.kind = "null"
    \/ first_artist_raises(item.track, "name")
    \/ item.track.album.kind = "null"
    \/ item.track.external_urls.kind = "null"
    \/ first_artist_raises(item.track, "id")

new_track_info(idx, item) ==
    LET track == item.track IN
    IF new_item_raises(item) THEN <<>>
    ELSE << [rank |-> JInt(idx),
             track_name |-> get(track.name, Unknown),
             artist_name |-> first_artist(track, "name", Unknown),
             album_name |-> get(album_of(track).name, Unknown),
             spotify_url |-> get(urls_of(track).spotify, EmptyStr),
             preview_url |-> get(track.preview_url, EmptyStr),
             duration_ms |-> get(track.duration_ms, Zero),
             popularity |-> get(track.popularity, Zero),
             explicit |-> get(track.explicit, False),
             played_at |-> get(item.played_at, EmptyStr),
             track_id |-> get(track.id, EmptyStr),
             artist_id |-> first_artist(track, "id", EmptyStr),
             album_id |-> get(album_of(track).id, EmptyStr)] >>

\* for idx, item in enumerate(results['items']): rank = idx + 1
RECURSIVE new_track_data(_, _)
new_track_data(items, idx) ==
    IF idx > Len(items) THEN <<>>
    ELSE new_track_info(idx, items[idx]) \o new_track_data(items, idx + 1)

(***************************************************************************)
(* spotify_etl.py run_spotify_etl: the per-track block (lines 238-255).    *)
(***************************************************************************)
etl_track_raises(track) ==
    \/ track.kind = "null"
    \/ first_artist_raises(track, "name")
    \/ track.external_urls.kind = "null"
    \/ track.album.kind = "null"

etl_track_info(track) ==
    IF etl_track_raises(track) THEN <<>>
    ELSE << [artist_name |-> first_artist(track, "name", Unknown),
             song_name |-> get(track.name, Unknown),
             popularity |-> get(track.popularity, Zero),
             duration_ms |-> get(track.duration_ms, Zero),
             explicit |-> get(track.explicit, False),
             external_url |-> get(urls_of(track).spotify, EmptyStr),
             preview_url |-> get(track.preview_url, EmptyStr),
             album_name |-> get(album_of(track).name, Unknown),
             release_date |-> get(album_of(track).release_date, EmptyStr),
             track_id |-> get(track.id, EmptyStr)] >>

RECURSIVE etl_track_data(_)
etl_track_data(tracks) ==
    IF tracks = <<>> THEN <<>>
    ELSE etl_track_info(Head(tracks)) \o etl_track_data(Tail(tracks))

(***************************************************************************)
(* Sinks.  DataFrame.to_csv(path, index=False) is called without a mode,   *)
(* so the file is opened for writing: a header line, then one line per     *)
(* record.  DataFrame.to_sql(..., if_exists="append") inserts after the    *)
(* rows the table already holds.                                           *)
(***************************************************************************)
EtlColumns ==
    <<"artist_name", "song_name", "popularity", "duration_ms", "explicit",
      "external_url", "preview_url", "album_name", "release_date", "track_id">>
NewColumns ==
    <<"rank", "track_name", "artist_name", "album_name", "spotify_url",
      "preview_url", "duration_ms", "popularity", "explicit", "played_at",
      "track_id", "artist_id", "album_id">>

\* the text pandas writes for one value
csv_cell(v) ==
    CASE v.kind = "str" -> v.s
      [] v.kind = "int" -> ToString(v.n)
      [] v.kind = "bool" -> IF v.n = 1 THEN "True" ELSE "False"
      [] OTHER -> ""

csv_line(rec, columns) == [i \in 1..Len(columns) |-> csv_cell(rec[columns[i]])]

csv_lines(records, columns) ==
    [i \in 1..Len(records) |-> csv_line(records[i], columns)]

NoFile == [exists |-> FALSE, lines |-> <<>>]
SongsPath == "s3://default-bucket/songs.csv"
RecentPath == "recently_played_tracks.csv"
DATABASE_LOCATION == "sqlite:///my_played_tracks.sqlite"

\* mutant: the file is opened with mode="a", the header written once
to_csv_append(file, records, columns) ==
    IF file.exists
    THEN [exists |-> TRUE, lines |-> file.lines \o csv_lines(records, columns)]
    ELSE [exists |-> TRUE, lines |-> <<columns>> \o csv_lines(records, columns)]

\* df.to_csv(output_path, index=False): the file after the write
to_csv(file, records, columns) ==
    [exists |-> TRUE, lines |-> <<columns>> \o csv_lines(records, columns)]

\* mutant: if_exists="replace"
to_sql_replace(rows, df) == df

\* df.to_sql("recently_played", conn, if_exists="append", index=False)
to_sql(rows, df) == rows \o df

(***************************************************************************)
(* API client functions.                                                   *)
(***************************************************************************)
\* spotify_etl2.py: params["limit"] = min(limit, 50)
etl2_limit_param(limit) == IF limit < 50 THEN limit ELSE 50

\* new.py: limit = min(max(limit, 1), 50)
new_limit_param(limit) ==
    LET lower == IF limit > 1 THEN limit ELSE 1 IN
    IF lower < 50 THEN lower ELSE 50

\* responses of the token endpoint
TokenResponses ==
    { [kind |-> "timeout", status |-> 0, access_token |-> Missing],
      [kind |-> "http", status |-> 401, access_token |-> Missing],
      [kind |-> "http", status |-> 200, access_token |-> Missing],
      [kind |-> "http", status |-> 200, access_token |-> JStr("BQD-token")] }

\* raise_for_status() raises for 4xx and 5xx
raises_for_status(status) == status >= 400

\* mutant: the except blocks return the error text instead of None
get_spotify_token_error_text(resp) ==
    IF resp.kind # "http" \/ raises_for_status(resp.status) THEN JStr("401 Client Error")
    ELSE IF ~truthy(get(resp.access_token, Null)) THEN Null
    ELSE resp.access_token

\* get_spotify_token: the token, or None
get_spotify_token(resp) ==
    IF resp.kind # "http" \/ raises_for_status(resp.status) THEN Null
    ELSE IF ~truthy(get(resp.access_token, Null)) THEN Null
    ELSE resp.access_token

\* responses of the search endpoint: artists.items holds at most one artist
ArtistHit == [kind |-> "dict", name |-> JStr("Ed Sheeran"), id |-> JStr("ar1")]
ArtistNoId == [kind |-> "dict", name |-> JStr("Ed Sheeran"), id |-> Missing]
SearchResponses ==
    { [kind |-> "timeout", status |-> 0, items |-> <<>>],
      [kind |-> "http", status |-> 500, items |-> <<>>],
      [kind |-> "http", status |-> 200, items |-> <<>>],
      [kind |-> "http", status |-> 200, items |-> <<ArtistHit>>],
      [kind |-> "http", status |-> 200, items |-> <<ArtistNoId>>] }

NoArtist == [kind |-> "null", name |-> Missing, id |-> Missing]

\* search_for_artist: the first match, or None
search_for_artist(resp) ==
    IF resp.kind # "http" \/ raises_for_status(resp.status) THEN NoArtist
    ELSE IF resp.items = <<>> THEN NoArtist
    ELSE resp.items[1]

\* mutant: the orchestrator does not test the value of search_for_artist
artist_found_unchecked(artist_data) == TRUE

\* `if not artist_data: raise` (run_spotify_etl)
artist_found(artist_data) == artist_data.kind # "null"

\* upstream tracks
ArtistA == [kind |-> "dict", name |-> JStr("Artist A"), id |-> JStr("ar1")]
ArtistAnon == [kind |-> "dict", name |-> Missing, id |-> Missing]
TrackA ==
    [kind |-> "dict", name |-> JStr("Song A"),
     artists |-> [kind |-> "list", elems |-> <<ArtistA>>],
     album |-> [kind |-> "dict", name |-> JStr("Album A"), id |-> JStr("al1"),
                release_date |-> JStr("2020-05-01")],
     external_urls |-> [kind |-> "dict", spotify |-> JStr("https://open.spotify.com/track/t1")],
     preview_url |-> JStr("https://p.scdn.co/t1"), duration_ms |-> JInt(180000),
     popularity |-> JInt(80), explicit |-> JBool(TRUE), id |-> JStr("t1")]
TrackB == [EmptyTrack EXCEPT !.name = JStr("Song B"), !.id = JStr("t2")]
TrackAnon == [TrackB EXCEPT !.artists = [kind |-> "list", elems |-> <<ArtistAnon>>]]
TrackSamples == {TrackA, TrackAnon}

SeqsUpTo(S, n) == UNION { [1..k -> S] : k \in 0..n }

\* responses of the top-tracks endpoint
TopTracksResponses ==
    { [kind |-> "timeout", status |-> 0, tracks |-> <<>>],
      [kind |-> "http", status |-> 404, tracks |-> <<>>] }
    \cup { [kind |-> "http", status |-> 200, tracks |-> ts] :
             ts \in SeqsUpTo(TrackSamples, MaxItems) }

\* get_songs_by_artist: the tracks, or [] on any failure
get_songs_by_artist(resp) ==
    IF resp.kind # "http" \/ raises_for_status(resp.status) THEN <<>>
    ELSE resp.tracks

\* upstream recently-played items
ItemA == [track |-> TrackA, played_at |-> JStr(T1)]
ItemNoPlayedAt == [track |-> TrackB, played_at |-> Missing]
ItemNoTrack == [track |-> NoTrack, played_at |-> JStr(T2)]
ItemSamples == {ItemA, ItemNoPlayedAt, ItemNoTrack}

\* responses of the recently-played endpoint: a failure, the body {} or a
\* body with an "items" list
NoData == [kind |-> "none", status |-> 0, body |-> "none", items |-> <<>>]
RecentResponses ==
    { [kind |-> "timeout", status |-> 0, body |-> "none", items |-> <<>>],
      [kind |-> "http", status |-> 401, body |-> "none", items |-> <<>>],
      [kind |-> "http", status |-> 200, body |-> "empty", items |-> <<>>] }
    \cup { [kind |-> "http", status |-> 200, body |-> "items", items |-> is] :
             is \in SeqsUpTo(ItemSamples, MaxItems) }

\* the request succeeded (no exception from the HTTP layer)
response_ok(resp) == resp.kind = "http" /\ ~raises_for_status(resp.status)

\* spotify_etl2.py get_recently_played_tracks: response.json(), or None
etl2_get_recently_played_tracks(resp) ==
    IF response_ok(resp) THEN resp ELSE NoData

\* mutant: `if not data.get("items")`
data_falsy_no_items(data) == data.body \in {"none", "empty"} \/ data.items = <<>>

\* `if not data`: None and the empty dict are falsy
data_falsy(data) == data.body \in {"none", "empty"}

\* new.py get_recently_played_tracks: None on an exception, [] when there
\* are no items, else the processed track_data
new_get_recently_played_tracks(resp) ==
    IF ~response_ok(resp) THEN [none |-> TRUE, track_data |-> <<>>]
    ELSE IF resp.body # "items" \/ resp.items = <<>>
         THEN [none |-> FALSE, track_data |-> <<>>]
    ELSE [none |-> FALSE, track_data |-> new_track_data(resp.items, 1)]

(***************************************************************************)
(* State.                                                                  *)
(***************************************************************************)
VARIABLES
    cfgLimit,    \* Airflow Variable SPOTIFY_RECENT_LIMIT, as an integer
    runs,        \* runs started so far
    prog,        \* the orchestrator of the current run
    pc,          \* its position
    trace,       \* the stages it has performed, in order
    result,      \* what the run returned or raised
    token,       \* run_spotify_etl: the value of get_spotify_token
    lastResp,    \* the HTTP response the last API call of the run received
    sentLimit,   \* the limit parameter sent to the recently-played endpoint
    tracks,      \* run_spotify_etl: the value of get_songs_by_artist
    data,        \* the value of the recently-played call
    track_data,  \* run_spotify_etl: the normalized batch
    df,          \* run_spotify_recently_played_etl: the normalized batch
    recent,      \* run_spotify_recently_played_analysis: the normalized batch
    sink,        \* the sink write of the run: "none", "ok" or "failed"
    writes,      \* history: successful writes to each sink so far
    songsCsv,    \* the file run_spotify_etl writes
    recentCsv,   \* the file run_spotify_recently_played_analysis writes
    table,       \* the rows of table recently_played
    acc          \* process_tracks_data: the accumulators, when followed item by item

runVars ==
    <<prog, pc, trace, result, token, lastResp, sentLimit, tracks, data,
      track_data, df, recent, sink>>
sinkVars == <<songsCsv, recentCsv, table>>
vars == <<acc, cfgLimit, runs, runVars, writes, sinkVars>>

RequestedLimits == {-5, 0, 10, 200}
Orchestrators == {"etl", "etl2", "new"}

NoLimit == [sent |-> FALSE, limit |-> 0]
NoResp == [call |-> "none", kind |-> "none", status |-> 0, count |-> 0]
NoOutput == "None"
Running == [status |-> "running", error |-> "", output_path |-> NoOutput]
Returned(status, path) == [status |-> status, error |-> "", output_path |-> path]
Raised(msg) == [status |-> "failed", error |-> msg, output_path |-> NoOutput]
\* `count` is the length of the list the response carries
received(call, resp, count) ==
    [call |-> call, kind |-> resp.kind, status |-> resp.status, count |-> count]
NoWrites == [songs |-> 0, recent |-> 0, table |-> 0]

Init ==
    /\ acc = EmptyAcc
    /\ cfgLimit \in RequestedLimits
    /\ runs = 0
    /\ prog = "none" /\ pc = "idle" /\ trace = <<>> /\ result = Returned("none", NoOutput)
    /\ token = Null /\ lastResp = NoResp /\ sentLimit = NoLimit
    /\ tracks = <<>> /\ data = NoData
    /\ track_data = <<>> /\ df = <<>> /\ recent = <<>> /\ sink = "none"
    /\ writes = NoWrites
    /\ songsCsv = NoFile /\ recentCsv = NoFile /\ table = <<>>

\* the scheduler (or __main__) calls an orchestrator; each run starts with
\* fresh locals
StartRun ==
    /\ pc \in {"idle", "done"}
    /\ runs < MaxRuns
    /\ runs' = runs + 1
    /\ prog' \in Orchestrators
    /\ pc' = "credentials" /\ trace' = <<>> /\ result' = Running
    /\ token' = Null /\ lastResp' = NoResp /\ sentLimit' = NoLimit
    /\ tracks' = <<>> /\ data' = NoData
    /\ track_data' = <<>> /\ df' = <<>> /\ recent' = <<>> /\ sink' = "none"
    /\ UNCHANGED <<acc, cfgLimit, writes, sinkVars>>

\* the run ends: `return summary` or the except block's `raise`
Ends(outcome) == result' = outcome /\ pc' = "done"
Goes(next) == pc' = next /\ UNCHANGED result

(***************************************************************************)
(* run_spotify_etl                                                         *)
(***************************************************************************)
EtlCredentials ==
    /\ prog = "etl" /\ pc = "credentials"
    /\ trace' = Append(trace, "credentials")
    /\ \E found \in BOOLEAN :
          IF found THEN Goes("token")
          ELSE Ends(Raised("Spotify credentials not found"))
    /\ UNCHANGED <<acc, cfgLimit, runs, prog, token, lastResp, sentLimit, tracks, data,
                   track_data, df, recent, sink, writes, sinkVars>>

EtlToken ==
    /\ prog = "etl" /\ pc = "token"
    /\ trace' = Append(trace, "token")
    /\ \E resp \in TokenResponses :
          /\ lastResp' = received("token", resp, IF truthy(resp.access_token) THEN 1 ELSE 0)
          /\ token' = get_spotify_token(resp)
          /\ IF truthy(token') THEN Goes("search")
             ELSE Ends(Raised("Failed to obtain Spotify access token"))
    /\ UNCHANGED <<acc, cfgLimit, runs, prog, sentLimit, tracks, data,
                   track_data, df, recent, sink, writes, sinkVars>>

EtlSearch ==
    /\ prog = "etl" /\ pc = "search"
    /\ trace' = Append(trace, "search")
    /\ \E resp \in SearchResponses :
          /\ lastResp' = received("search", resp, Len(resp.items))
          /\ LET artist_data == search_for_artist(resp) IN
             IF ~artist_found(artist_data) THEN Ends(Raised("Artist not found"))
             ELSE IF artist_data.id.kind = "missing" THEN Ends(Raised("KeyError: 'id'"))
             ELSE Goes("top_tracks")
    /\ UNCHANGED <<acc, cfgLimit, runs, prog, token, sentLimit, tracks, data,
                   track_data, df, recent, sink, writes, sinkVars>>

EtlTopTracks ==
    /\ prog = "etl" /\ pc = "top_tracks"
    /\ trace' = Append(trace, "top_tracks")
    /\ \E resp \in TopTracksResponses :
          /\ lastResp' = received("top_tracks", resp, Len(resp.tracks))
          /\ tracks' = get_songs_by_artist(resp)
          /\ IF tracks' = <<>> THEN Ends(Raised("No tracks found for artist"))
             ELSE Goes("normalize")
    /\ UNCHANGED <<acc, cfgLimit, runs, prog, token, sentLimit, data,
                   track_data, df, recent, sink, writes, sinkVars>>

EtlNormalize ==
    /\ prog = "etl" /\ pc = "normalize"
    /\ trace' = Append(trace, "normalize")
    /\ track_data' = etl_track_data(tracks)
    /\ IF track_data' = <<>> THEN Ends(Raised("No valid track data processed"))
       ELSE Goes("save")
    /\ UNCHANGED <<acc, cfgLimit, runs, prog, token, lastResp, sentLimit, tracks, data,
                   df, recent, sink, writes, sinkVars>>

\* mutant: the summary raises after save_to_csv has written the file
EtlSave_raises_after_write ==
    /\ prog = "etl" /\ pc = "save"
    /\ \E written \in BOOLEAN :
          IF written
          THEN /\ songsCsv' = to_csv(songsCsv, track_data, EtlColumns)
               /\ writes' = [writes EXCEPT !.songs = @ + 1]
               /\ sink' = "ok"
               /\ trace' = trace \o <<"save", "summary">>
               /\ Ends(Raised("summary failed"))
          ELSE /\ UNCHANGED <<songsCsv, writes>>
               /\ sink' = "failed"
               /\ trace' = Append(trace, "save")
               /\ Ends(Raised("Failed to save data to CSV"))
    /\ UNCHANGED <<acc, cfgLimit, runs, prog, token, lastResp, sentLimit, tracks, data,
                   track_data, df, recent, recentCsv, table>>

\* save_to_csv returns False when the write raises
EtlSave ==
    /\ prog = "etl" /\ pc = "save"
    /\ \E written \in BOOLEAN :
          IF written
          THEN /\ songsCsv' = to_csv(songsCsv, track_data, EtlColumns)
               /\ writes' = [writes EXCEPT !.songs = @ + 1]
               /\ sink' = "ok"
               /\ trace' = trace \o <<"save", "summary">>
               /\ Ends(Returned("success", SongsPath))
          ELSE /\ UNCHANGED <<songsCsv, writes>>
               /\ sink' = "failed"
               /\ trace' = Append(trace, "save")
               /\ Ends(Raised("Failed to save data to CSV"))
    /\ UNCHANGED <<acc, cfgLimit, runs, prog, token, lastResp, sentLimit, tracks, data,
                   track_data, df, recent, recentCsv, table>>

(***************************************************************************)
(* run_spotify_recently_played_etl                                         *)
(***************************************************************************)
Etl2UserToken ==
    /\ prog = "etl2" /\ pc = "credentials"
    /\ trace' = Append(trace, "credentials")
    /\ \E found \in BOOLEAN :
          IF found THEN Goes("fetch")
          ELSE Ends(Raised("Spotify user token not found"))
    /\ UNCHANGED <<acc, cfgLimit, runs, prog, token, lastResp, sentLimit, tracks, data,
                   track_data, df, recent, sink, writes, sinkVars>>

Etl2Fetch ==
    /\ prog = "etl2" /\ pc = "fetch"
    /\ trace' = Append(trace, "fetch")
    /\ sentLimit' = [sent |-> TRUE, limit |-> etl2_limit_param(cfgLimit)]
    /\ \E resp \in RecentResponses :
          /\ lastResp' = received("recently_played", resp, Len(resp.items))
          /\ data' = etl2_get_recently_played_tracks(resp)
          /\ IF data_falsy(data')
             THEN Ends(Raised("Failed to retrieve recently played tracks"))
             ELSE Goes("normalize")
    /\ UNCHANGED <<acc, cfgLimit, runs, prog, token, tracks,
                   track_data, df, recent, sink, writes, sinkVars>>

\* mutant: the batch goes from process_tracks_data straight to the sink
Etl2Process_unvalidated ==
    /\ prog = "etl2" /\ pc = "normalize"
    /\ trace' = Append(trace, "normalize")
    /\ LET out == process_tracks_data(data.items) IN
          /\ df' = out.df
          /\ IF out.raised THEN Ends(Raised("ValueError: arrays must all be same length"))
             ELSE IF out.df = <<>> THEN Ends(Returned("no_data", NoOutput))
             ELSE Goes("save")
    /\ UNCHANGED <<acc, cfgLimit, runs, prog, token, lastResp, sentLimit, tracks, data,
                   track_data, recent, sink, writes, sinkVars>>

Etl2Process ==
    /\ prog = "etl2" /\ pc = "normalize"
    /\ trace' = Append(trace, "normalize")
    /\ LET out == process_tracks_data(data.items) IN
          /\ df' = out.df
          /\ IF out.raised THEN Ends(Raised("ValueError: arrays must all be same length"))
             ELSE IF out.df = <<>> THEN Ends(Returned("no_data", NoOutput))
             ELSE Goes("validate")
    /\ UNCHANGED <<acc, cfgLimit, runs, prog, token, lastResp, sentLimit, tracks, data,
                   track_data, recent, sink, writes, sinkVars>>

Etl2Validate ==
    /\ prog = "etl2" /\ pc = "validate"
    /\ trace' = Append(trace, "validate")
    /\ IF check_if_valid_data(df) = "raise"
       THEN Ends(Raised("Primary Key check is violated"))
       ELSE Goes("save")
    /\ UNCHANGED <<acc, cfgLimit, runs, prog, token, lastResp, sentLimit, tracks, data,
                   track_data, df, recent, sink, writes, sinkVars>>

\* save_to_database returns False when connect or to_sql raises
Etl2Save ==
    /\ prog = "etl2" /\ pc = "save"
    /\ \E written \in BOOLEAN :
          IF written
          THEN /\ table' = to_sql(table, df)
               /\ writes' = [writes EXCEPT !.table = @ + 1]
               /\ sink' = "ok"
               /\ trace' = trace \o <<"save", "summary">>
               /\ Ends(Returned("success", DATABASE_LOCATION))
          ELSE /\ UNCHANGED <<table, writes>>
               /\ sink' = "failed"
               /\ trace' = Append(trace, "save")
               /\ Ends(Raised("Failed to save data to database"))
    /\ UNCHANGED <<acc, cfgLimit, runs, prog, token, lastResp, sentLimit, tracks, data,
                   track_data, df, recent, songsCsv, recentCsv>>

(***************************************************************************)
(* run_spotify_recently_played_analysis                                    *)
(***************************************************************************)
NewCredentials ==
    /\ prog = "new" /\ pc = "credentials"
    /\ trace' = Append(trace, "credentials")
    /\ \E found \in BOOLEAN :
          IF found THEN Goes("token")
          ELSE Ends(Raised("Spotify credentials not found"))
    /\ UNCHANGED <<acc, cfgLimit, runs, prog, token, lastResp, sentLimit, tracks, data,
                   track_data, df, recent, sink, writes, sinkVars>>

\* create_spotify_client returns None when authentication raises
NewClient ==
    /\ prog = "new" /\ pc = "token"
    /\ trace' = Append(trace, "token")
    /\ \E sp \in BOOLEAN :
          IF sp THEN Goes("fetch")
          ELSE Ends(Raised("Failed to create Spotify client"))
    /\ UNCHANGED <<acc, cfgLimit, runs, prog, token, lastResp, sentLimit, tracks, data,
                   track_data, df, recent, sink, writes, sinkVars>>

\* get_recently_played_tracks fetches and normalizes
NewFetch ==
    /\ prog = "new" /\ pc = "fetch"
    /\ trace' = trace \o <<"fetch", "normalize">>
    /\ sentLimit' = [sent |-> TRUE, limit |-> new_limit_param(cfgLimit)]
    /\ \E resp \in RecentResponses :
          /\ lastResp' = received("recently_played", resp, Len(resp.items))
          /\ data' = resp
          /\ LET out == new_get_recently_played_tracks(resp) IN
                /\ recent' = out.track_data
                /\ IF out.track_data = <<>> THEN Ends(Returned("no_data", NoOutput))
                   ELSE Goes("save")
    /\ UNCHANGED <<acc, cfgLimit, runs, prog, token, tracks,
                   track_data, df, sink, writes, sinkVars>>

\* mutant: the summary names the output path whatever the write returned
new_summary_always_path(save_success) == Returned("success", RecentPath)

\* the summary of run_spotify_recently_played_analysis: the value of
\* save_tracks_to_csv only selects its output_path
new_summary(save_success) ==
    Returned("success", IF save_success THEN RecentPath ELSE NoOutput)

NewSave ==
    /\ prog = "new" /\ pc = "save"
    /\ trace' = trace \o <<"save", "summary">>
    /\ \E written \in BOOLEAN :
          /\ recentCsv' = IF written THEN to_csv(recentCsv, recent, NewColumns)
                          ELSE recentCsv
          /\ writes' = IF written THEN [writes EXCEPT !.recent = @ + 1] ELSE writes
          /\ sink' = IF written THEN "ok" ELSE "failed"
          /\ Ends(new_summary(written))
    /\ UNCHANGED <<acc, cfgLimit, runs, prog, token, lastResp, sentLimit, tracks, data,
                   track_data, df, recent, songsCsv, table>>

Next ==
    \/ StartRun
    \/ EtlCredentials \/ EtlToken \/ EtlSearch \/ EtlTopTracks \/ EtlNormalize
    \/ EtlSave
    \/ Etl2UserToken \/ Etl2Fetch \/ Etl2Process \/ Etl2Validate \/ Etl2Save
    \/ NewCredentials \/ NewClient \/ NewFetch \/ NewSave

Spec == Init /\ [][Next]_vars

(***************************************************************************)
(* The normalizers on their own: one raw item in which every optional      *)
(* field is either present or absent, handed to process_tracks_data, to    *)
(* the loop of new.py get_recently_played_tracks and (its track) to the    *)
(* loop of run_spotify_etl.                                                *)
(***************************************************************************)
Optional(v) == {Missing, v}
AllArtists ==
    {NoArtists} \cup
    { [kind |-> "list", elems |-> <<[kind |-> "dict", name |-> n, id |-> i]>>] :
        n \in Optional(JStr("Artist A")), i \in Optional(JStr("ar1")) }
AllAlbums ==
    {NoAlbum} \cup
    [kind : {"dict"}, name : Optional(JStr("Album A")), id : Optional(JStr("al1")),
     release_date : Optional(JStr("2020-05-01"))]
AllUrls ==
    {NoUrls} \cup
    [kind : {"dict"}, spotify : Optional(JStr("https://open.spotify.com/track/t1"))]
AllTracks ==
    [kind : {"dict"}, name : Optional(JStr("Song A")), artists : AllArtists,
     album : AllAlbums, external_urls : AllUrls,
     preview_url : Optional(JStr("https://p.scdn.co/t1")),
     duration_ms : Optional(JInt(180000)), popularity : Optional(JInt(80)),
     explicit : Optional(JBool(TRUE)), id : Optional(JStr("t1"))]
NormItems == [track : AllTracks \cup {NoTrack}, played_at : Optional(JStr(T1))]

InitNorm ==
    /\ acc = EmptyAcc
    /\ cfgLimit = 50 /\ runs = 0
    /\ prog = "normalizers" /\ pc = "etl2" /\ trace = <<>> /\ result = Running
    /\ token = Null /\ lastResp = NoResp /\ sentLimit = NoLimit
    /\ \E item \in NormItems :
          /\ data = [kind |-> "http", status |-> 200, body |-> "items",
                     items |-> <<item>>]
          /\ tracks = IF item.track.kind = "missing" THEN <<>> ELSE <<item.track>>
    /\ track_data = <<>> /\ df = <<>> /\ recent = <<>> /\ sink = "none"
    /\ writes = NoWrites
    /\ songsCsv = NoFile /\ recentCsv = NoFile /\ table = <<>>

\* trace lists the normalizers that returned without raising
NormEtl2 ==
    /\ prog = "normalizers" /\ pc = "etl2"
    /\ LET out == process_tracks_data(data.items) IN
          /\ df' = out.df
          /\ trace' = IF out.raised THEN trace ELSE Append(trace, "etl2")
    /\ pc' = "new"
    /\ UNCHANGED <<acc, cfgLimit, runs, prog, result, token, lastResp, sentLimit, tracks,
                   data, track_data, recent, sink, writes, sinkVars>>

NormNew ==
    /\ prog = "normalizers" /\ pc = "new"
    /\ recent' = new_track_data(data.items, 1)
    /\ trace' = Append(trace, "new")
    /\ pc' = "etl"
    /\ UNCHANGED <<acc, cfgLimit, runs, prog, result, token, lastResp, sentLimit, tracks,
                   data, track_data, df, sink, writes, sinkVars>>

NormEtl ==
    /\ prog = "normalizers" /\ pc = "etl"
    /\ track_data' = etl_track_data(tracks)
    /\ trace' = Append(trace, "etl")
    /\ pc' = "done"
    /\ UNCHANGED <<acc, cfgLimit, runs, prog, result, token, lastResp, sentLimit, tracks,
                   data, df, recent, sink, writes, sinkVars>>

NextNorm == NormEtl2 \/ NormNew \/ NormEtl

SpecNorm == InitNorm /\ [][NextNorm]_vars

(***************************************************************************)
(* The normalizers on raw items in which a key may also be present with    *)
(* the JSON value null, followed by the CSV writes of the two batches the  *)
(* CSV orchestrators hold.                                                 *)
(***************************************************************************)
Nullable(v) == {Missing, Null, v}
NullableArtists ==
    { NoArtists, [kind |-> "null", elems |-> <<>>],
      [kind |-> "list", elems |-> <<NoArtist>>],
      [kind |-> "list", elems |-> <<ArtistA>>] }
NullableAlbums == {NoAlbum, [NoAlbum EXCEPT !.kind = "null"], TrackA.album}
NullableUrls == {NoUrls, [NoUrls EXCEPT !.kind = "null"], TrackA.external_urls}
NullableTracks ==
    [kind : {"dict"}, name : {JStr("Song A")}, artists : NullableArtists,
     album : NullableAlbums, external_urls : NullableUrls,
     preview_url : Nullable(JStr("https://p.scdn.co/t1")),
     duration_ms : Nullable(JInt(180000)), popularity : Nullable(JInt(80)),
     explicit : {JBool(TRUE)}, id : Nullable(JStr("t1"))]
NullItems ==
    [track : NullableTracks \cup {NoTrack, NullTrack}, played_at : Nullable(JStr(T1))]

InitNull ==
    /\ acc = EmptyAcc
    /\ cfgLimit = 50 /\ runs = 0
    /\ prog = "normalizers" /\ pc = "etl2" /\ trace = <<>> /\ result = Running
    /\ token = Null /\ lastResp = NoResp /\ sentLimit = NoLimit
    /\ \E item \in NullItems :
          /\ data = [kind |-> "http", status |-> 200, body |-> "items",
                     items |-> <<item>>]
          /\ tracks = IF item.track.kind = "missing" THEN <<>> ELSE <<item.track>>
    /\ track_data = <<>> /\ df = <<>> /\ recent = <<>> /\ sink = "none"
    /\ writes = NoWrites
    /\ songsCsv = NoFile /\ recentCsv = NoFile /\ table = <<>>

\* save_to_csv(df, path) as run_spotify_etl calls it (never with an empty
\* batch) and save_tracks_to_csv(track_data, path), which refuses an empty one
NormSave ==
    /\ prog = "normalizers" /\ pc = "done"
    /\ songsCsv' = IF track_data = <<>> THEN songsCsv
                   ELSE to_csv(songsCsv, track_data, EtlColumns)
    /\ recentCsv' = IF recent = <<>> THEN recentCsv
                    ELSE to_csv(recentCsv, recent, NewColumns)
    /\ writes' = [writes EXCEPT !.songs = IF track_data = <<>> THEN @ ELSE @ + 1,
                                !.recent = IF recent = <<>> THEN @ ELSE @ + 1]
    /\ sink' = "ok"
    /\ trace' = Append(trace, "save")
    /\ pc' = "saved"
    /\ UNCHANGED <<acc, cfgLimit, runs, prog, result, token, lastResp, sentLimit, tracks,
                   data, track_data, df, recent, table>>

NextNull == NormEtl2 \/ NormNew \/ NormEtl \/ NormSave

SpecNull == InitNull /\ [][NextNull]_vars

(***************************************************************************)
(* process_tracks_data followed item by item: one step per iteration of    *)
(* its loop, then the construction of the DataFrame.  trace holds one      *)
(* entry per item handled.                                                 *)
(***************************************************************************)
ItemNullTrack == [track |-> NullTrack, played_at |-> JStr(T2)]
ItemNullAlbum ==
    [track |-> [TrackA EXCEPT !.album = [NoAlbum EXCEPT !.kind = "null"]],
     played_at |-> JStr(T2)]
ItemNullArtist ==
    [track |-> [TrackA EXCEPT !.artists = [kind |-> "list", elems |-> <<NoArtist>>]],
     played_at |-> JStr(T2)]
LoopItems == ItemSamples \cup {ItemNullTrack, ItemNullAlbum, ItemNullArtist}

InitLoop ==
    /\ acc = EmptyAcc
    /\ cfgLimit = 50 /\ runs = 0
    /\ prog = "process_tracks_data" /\ pc = "loop" /\ trace = <<>> /\ result = Running
    /\ token = Null /\ lastResp = NoResp /\ sentLimit = NoLimit
    /\ tracks = <<>>
    /\ \E items \in SeqsUpTo(LoopItems, MaxItems) :
          data = [kind |-> "http", status |-> 200, body |-> "items", items |-> items]
    /\ track_data = <<>> /\ df = <<>> /\ recent = <<>> /\ sink = "none"
    /\ writes = NoWrites
    /\ songsCsv = NoFile /\ recentCsv = NoFile /\ table = <<>>

\* one iteration: the try block and, when it raises, `continue`
LoopItem ==
    /\ prog = "process_tracks_data" /\ pc = "loop"
    /\ Len(trace) < Len(data.items)
    /\ acc' = etl2_process_item(acc, data.items[Len(trace) + 1])
    /\ trace' = Append(trace, "item")
    /\ UNCHANGED <<cfgLimit, runs, prog, pc, result, token, lastResp, sentLimit, tracks,
                   data, track_data, df, recent, sink, writes, sinkVars>>

\* after the loop: pd.DataFrame(song_dict)
LoopEnd ==
    /\ prog = "process_tracks_data" /\ pc = "loop"
    /\ Len(trace) = Len(data.items)
    /\ IF columns_aligned(acc)
       THEN df' = dataframe(acc) /\ Ends(Returned("dataframe", NoOutput))
       ELSE df' = df /\ Ends(Raised("ValueError: arrays must all be same length"))
    /\ UNCHANGED <<acc, cfgLimit, runs, prog, trace, token, lastResp, sentLimit, tracks,
                   data, track_data, recent, sink, writes, sinkVars>>

NextLoop == LoopItem \/ LoopEnd

SpecLoop == InitLoop /\ [][NextLoop]_vars

(***************************************************************************)
(* spotify_dag.py: one scheduled run of task complete_spotify_etl.  The     *)
(* scheduler starts an attempt of run_spotify_etl, and another one after   *)
(* an attempt that raised, up to `retries` more; here runs counts the      *)
(* attempts started.                                                       *)
(***************************************************************************)
retries == 2
max_active_runs == 1

\* attempts in progress
active == IF pc \in {"idle", "done"} THEN 0 ELSE 1

DagAttempt ==
    /\ active < max_active_runs
    /\ pc = "done" => result.status = "failed"
    /\ runs < 1 + retries
    /\ runs' = runs + 1
    /\ prog' = "etl"
    /\ pc' = "credentials" /\ trace' = <<>> /\ result' = Running
    /\ token' = Null /\ lastResp' = NoResp /\ sentLimit' = NoLimit
    /\ tracks' = <<>> /\ data' = NoData
    /\ track_data' = <<>> /\ df' = <<>> /\ recent' = <<>> /\ sink' = "none"
    /\ UNCHANGED <<acc, cfgLimit, writes, sinkVars>>

NextDag ==
    \/ DagAttempt
    \/ EtlCredentials \/ EtlToken \/ EtlSearch \/ EtlTopTracks \/ EtlNormalize
    \/ EtlSave

SpecDag == Init /\ [][NextDag]_vars

(***************************************************************************)
(* Properties.                                                             *)
(***************************************************************************)
Did(stage) == \E i \in 1..Len(trace) : trace[i] = stage
FetchOk == lastResp.kind = "http" /\ ~raises_for_status(lastResp.status)

\* C1: whatever limit is requested, the limit parameter sent to the
\* recently-played endpoint lies in [1, 50], in both variants.
C1_LimitClamped == sentLimit.sent => sentLimit.limit \in 1..50

PrimaryKeyError == Raised("Primary Key check is violated")
Validated == prog = "etl2" /\ Did("validate")
DuplicatePlayedAt(rows) ==
    \E i, j \in 1..Len(rows) : i # j /\ rows[i].played_at = rows[j].played_at
DuplicateNonEmptyPlayedAt(rows) ==
    \E i, j \in 1..Len(rows) :
        i # j /\ rows[i].played_at = rows[j].played_at /\ truthy(rows[i].played_at)

\* C2 (as claimed): two records with the same non-empty played_at make
\* check_if_valid_data raise, the run fails and save_to_database is not
\* invoked; a batch whose non-empty played_at values are pairwise distinct
\* does not trigger the error.
C2_Original ==
    Validated =>
        /\ DuplicateNonEmptyPlayedAt(df) =>
              result = PrimaryKeyError /\ sink = "none" /\ ~Did("save")
        /\ ~DuplicateNonEmptyPlayedAt(df) => result # PrimaryKeyError

\* C2 (amended): check_if_valid_data raises exactly when two records of the
\* batch have the same played_at value, the empty string of a record
\* without played_at included; the run then fails and save_to_database is
\* not invoked.
C2_Amended ==
    Validated =>
        /\ DuplicatePlayedAt(df) <=> result = PrimaryKeyError
        /\ result = PrimaryKeyError => pc = "done" /\ sink = "none" /\ ~Did("save")

C2_Witness ==
    Validated /\ DuplicateNonEmptyPlayedAt(df) /\ result = PrimaryKeyError

\* the fetch of the run succeeded and its item/track list is empty
EmptyFetch ==
    /\ FetchOk
    /\ lastResp.count = 0
    /\ \/ prog = "etl" /\ lastResp.call = "top_tracks"
       \/ prog \in {"etl2", "new"} /\ lastResp.call = "recently_played"
                                   /\ data.body = "items"

SearchMiss ==
    prog = "etl" /\ lastResp.call = "search" /\ (~FetchOk \/ lastResp.count = 0)

\* C4: when search_for_artist finds no artist, run_spotify_etl raises
\* "Artist not found" and performs neither the top-tracks call nor the save.
C4_ArtistNotFound ==
    SearchMiss =>
        /\ pc = "done" /\ result = Raised("Artist not found")
        /\ ~Did("top_tracks") /\ ~Did("save") /\ sink = "none"

C4_Witness == SearchMiss /\ FetchOk /\ lastResp.count = 0 /\ pc = "done"

Token401 == prog = "etl" /\ lastResp.call = "token" /\ lastResp.status = 401

OrDefault(v, default) == IF v.kind = "missing" THEN default ELSE v
FirstArtistOr(track, default, key) ==
    IF track.artists.kind = "missing" \/ track.artists.elems = <<>> THEN default
    ELSE IF key = "name" THEN OrDefault(track.artists.elems[1].name, default)
    ELSE OrDefault(track.artists.elems[1].id, default)
AlbumOr(track, default, key) ==
    IF track.album.kind = "missing" THEN default
    ELSE IF key = "name" THEN OrDefault(track.album.name, default)
    ELSE IF key = "id" THEN OrDefault(track.album.id, default)
    ELSE OrDefault(track.album.release_date, default)
UrlOr(track, default) ==
    IF track.external_urls.kind = "missing" THEN default
    ELSE OrDefault(track.external_urls.spotify, default)

\* C6: for an item in which any subset of the optional nested fields is
\* missing, each normalizer returns without raising and emits one record
\* for the item, holding the upstream value where it is present and the
\* documented default ("Unknown", 0, false, "") where it is missing.
C6_DefaultsForMissing ==
    LET item == data.items[1]
        track == item.track
    IN  (prog = "normalizers" /\ track.kind = "dict") =>
        /\ pc # "etl2" =>
              /\ Did("etl2")
              /\ Len(df) = 1
              /\ df[1].song_name = OrDefault(track.name, Unknown)
              /\ df[1].artist_name = FirstArtistOr(track, Unknown, "name")
              /\ df[1].played_at = OrDefault(item.played_at, EmptyStr)
              /\ df[1].track_id = OrDefault(track.id, EmptyStr)
              /\ df[1].album_name = AlbumOr(track, Unknown, "name")
              /\ df[1].duration_ms = OrDefault(track.duration_ms, Zero)
              /\ df[1].popularity = OrDefault(track.popularity, Zero)
        /\ pc \in {"etl", "done"} =>
              /\ Len(recent) = 1
              /\ recent[1].track_name = OrDefault(track.name, Unknown)
              /\ recent[1].artist_name = FirstArtistOr(track, Unknown, "name")
              /\ recent[1].artist_id = FirstArtistOr(track, EmptyStr, "id")
              /\ recent[1].album_name = AlbumOr(track, Unknown, "name")
              /\ recent[1].album_id = AlbumOr(track, EmptyStr, "id")
              /\ recent[1].spotify_url = UrlOr(track, EmptyStr)
              /\ recent[1].preview_url = OrDefault(track.preview_url, EmptyStr)
              /\ recent[1].duration_ms = OrDefault(track.duration_ms, Zero)
              /\ recent[1].popularity = OrDefault(track.popularity, Zero)
              /\ recent[1].explicit = OrDefault(track.explicit, False)
              /\ recent[1].played_at = OrDefault(item.played_at, EmptyStr)
              /\ recent[1].track_id = OrDefault(track.id, EmptyStr)
        /\ pc = "done" =>
              /\ Len(track_data) = 1
              /\ track_data[1].song_name = OrDefault(track.name, Unknown)
              /\ track_data[1].artist_name = FirstArtistOr(track, Unknown, "name")
              /\ track_data[1].album_name = AlbumOr(track, Unknown, "name")
              /\ track_data[1].release_date = AlbumOr(track, EmptyStr, "release_date")
              /\ track_data[1].external_url = UrlOr(track, EmptyStr)
              /\ track_data[1].preview_url = OrDefault(track.preview_url, EmptyStr)
              /\ track_data[1].duration_ms = OrDefault(track.duration_ms, Zero)
              /\ track_data[1].popularity = OrDefault(track.popularity, Zero)
              /\ track_data[1].explicit = OrDefault(track.explicit, False)
              /\ track_data[1].track_id = OrDefault(track.id, EmptyStr)

\* the items of a response that carry a `track` key
WithTrack(items) == { i \in 1..Len(items) : items[i].track.kind # "missing" }

\* C7: an item without a `track` key produces no record, every other item
\* of the response still produces its record, in both recently-played
\* normalizers.
C7_NoTrackSkipped ==
    /\ (prog = "etl2" /\ Did("normalize") /\ result.status # "failed") =>
          Len(df) = Cardinality(WithTrack(data.items))
    /\ (prog = "new" /\ Did("normalize") /\ FetchOk) =>
          Len(recent) = Cardinality(WithTrack(data.items))

Prefix(a, b) == Len(a) <= Len(b) /\ SubSeq(b, 1, Len(a)) = a

C10_AppendOnly ==
    [][ IF prog = "etl2" /\ pc = "save" /\ sink' = "ok"
        THEN table' = table \o df
        ELSE table' = table ]_vars

\* a second run appended a row equal to a row of an earlier run
C10_Witness ==
    /\ prog = "etl2" /\ sink = "ok" /\ Len(table) > Len(df)
    /\ \E i \in 1..(Len(table) - Len(df)) :
          \E j \in (Len(table) - Len(df) + 1)..Len(table) : table[i] = table[j]

\* the track of the single raw item the normalizers were handed
Upstream == data.items[1].track
TypedRecord(rec) ==
    /\ rec.track_id.kind = "str"
    /\ rec.duration_ms.kind = "int"
    /\ rec.popularity.kind = "int"
    /\ Upstream.duration_ms.kind = "missing" => rec.duration_ms = Zero
    /\ Upstream.popularity.kind = "missing" => rec.popularity = Zero

\* C11: in every record a normalizer produced, whatever the raw item (a key
\* may be present with the value null), track_id is a string, never null,
\* and duration_ms and popularity are integers, 0 when the upstream track
\* has no such key.
C11_TypedFields ==
    prog = "normalizers" =>
        /\ \A i \in 1..Len(df) : TypedRecord(df[i])
        /\ \A i \in 1..Len(recent) : TypedRecord(recent[i])
        /\ \A i \in 1..Len(track_data) : TypedRecord(track_data[i])

\* the fetch of the run (top tracks, recently played) failed: a transport
\* error or a status raise_for_status() raises for
FetchFailed == lastResp.call \in {"top_tracks", "recently_played"} /\ ~FetchOk
\* what the orchestrator gives its caller when the fetch succeeds with an
\* empty list
EmptyOutcome ==
    IF prog = "etl" THEN Raised("No tracks found for artist")
    ELSE Returned("no_data", NoOutput)

\* C12: a run whose fetch failed ends by raising, and what it raises differs
\* from the outcome of a fetch that succeeded with an empty result, so the
\* caller can tell the HTTP failure from "no data".
C12_FetchFailureDistinct ==
    (pc = "done" /\ FetchFailed) =>
        /\ result.status = "failed"
        /\ result # EmptyOutcome

\* the values a normalizer stores for a key that is absent (the defaults) or
\* present with null (None)
DefaultValues == {Null, EmptyStr, Unknown, Zero, False}

\* the text of the cell determines the value written: no other value a
\* normalizer stores is written as the same text
Recoverable(v) == \A w \in DefaultValues : csv_cell(w) = csv_cell(v) => w = v

\* the file holds the header and one line per record, in order, and every
\* cell determines the field value it was written from
RoundTrips(file, records, columns) ==
    /\ file.exists
    /\ Len(file.lines) = Len(records) + 1
    /\ \A i \in 1..Len(records) :
          /\ file.lines[i + 1] = csv_line(records[i], columns)
          /\ \A j \in 1..Len(columns) : Recoverable(records[i][columns[j]])

\* C13: after a batch of normalized records is written to a fresh CSV file,
\* the file gives back exactly those records: as many rows, in order, each
\* field value determined by its cell (the empty-string defaults included).
C13_RoundTrip ==
    (prog = "normalizers" /\ pc = "saved") =>
        /\ track_data # <<>> => RoundTrips(songsCsv, track_data, EtlColumns)
        /\ recent # <<>> => RoundTrips(recentCsv, recent, NewColumns)

\* the place of a stage in resolve credentials, acquire token, fetch (the
\* search and the top-tracks call of run_spotify_etl are two calls of the
\* fetch stage), normalize, validate, persist, summarize
StageRank(stage) ==
    CASE stage = "credentials" -> 1
      [] stage = "token" -> 2
      [] stage = "search" -> 3
      [] stage \in {"top_tracks", "fetch"} -> 4
      [] stage = "normalize" -> 5
      [] stage = "validate" -> 6
      [] stage = "save" -> 7
      [] stage = "summary" -> 8
\* the stages performed so far are in the fixed order, none of them twice
InOrder ==
    \A i, j \in 1..Len(trace) : i < j => StageRank(trace[i]) < StageRank(trace[j])

C15_AccumulatorsAligned ==
    prog = "process_tracks_data" =>
        /\ columns_aligned(acc)
        /\ result.status # "failed"

====
